---- MODULE Spec2Model ----
(***************************************************************************)
(* Model of IslamPashazade_MetroSimulation.py: the MetroNetwork data       *)
(* holder (add_station, add_connection) and its two searches,              *)
(* find_least_transfers (breadth-first) and find_fastest_route (heapq      *)
(* ordered).  Stations are identified by their idx; a Station object is    *)
(* the record stations[idx] (x, y, neighbors).  One loop iteration of a    *)
(* search is one action.                                                   *)
(***************************************************************************)
EXTENDS Integers, Sequences, FiniteSets, TLC

VARIABLES
    stations,       \* MetroNetwork.stations: idx -> [x, y, neighbors]
    stdout,         \* the text printed by the last operation ("" when none)
    pc,             \* "idle" | "bfs" | "astar" | "returned"
    call,           \* the running / last call: [fn, start, target]
    queue,          \* find_least_transfers: deque of [s, path]
    visited,        \* find_least_transfers: visited set
    pq,             \* find_fastest_route: heapq list of [t, h, s, path]
    shortest_time,  \* find_fastest_route: dict station -> best time
    result,         \* what the call returned or raised: [tag, path, total]
    added,          \* history: stations put on queue / pq, in order
    removed,        \* history: [s, t, nadd] per loop iteration, in order
    mainpc          \* position in the __main__ script (0 outside it)

vars == <<stations, stdout, pc, call, queue, visited, pq, shortest_time,
          result, added, removed, mainpc>>

(***************************************************************************)
(* Bounds and input sets of the arbitrary-caller specification.            *)
(***************************************************************************)
MaxEdges == 2

Ids == {1, 2, 3}

Points == {<<0, 0>>, <<1, 0>>}

\* Travel times a caller gives add_connection: the non-negative ones the
\* search is designed for, and those plus a negative one, which
\* add_connection accepts as well.
Weights == {0, 1}

SignedWeights == {-1, 0, 1}

\* Loop iterations of one find_fastest_route call that the model follows.
MaxPops == 2 * MaxEdges + 2

NoMessage == ""

MissingStationMessage == "Error: One or both stations do not exist."

MissingConnectionMessage == "Error: One of the stations does not exist."

(***************************************************************************)
(* Results of a call.                                                      *)
(***************************************************************************)
NoResult == [tag |-> "pending", path |-> <<>>, total |-> 0]

ReturnNone == [tag |-> "None", path |-> <<>>, total |-> 0]

ReturnPath(path, total) == [tag |-> "path", path |-> path, total |-> total]

Raise(exc) == [tag |-> exc, path |-> <<>>, total |-> 0]

(***************************************************************************)
(* Station                                                                 *)
(***************************************************************************)
Station(x, y) == [x |-> x, y |-> y, neighbors |-> <<>>]

\* Station.distance_to returns ((dx)^2 + (dy)^2) ** 0.5.  The program only
\* ever compares these values with each other (and with the initial 0), and
\* v |-> v ** 0.5 is strictly increasing on the integers used here, so the
\* value is carried as the radicand dx^2 + dy^2.
distance_to(S, a, b) ==
    (S[a].x - S[b].x) * (S[a].x - S[b].x) + (S[a].y - S[b].y) * (S[a].y - S[b].y)

add_neighbor(S, a, b, time) ==
    [S EXCEPT ![a].neighbors = Append(@, <<b, time>>)]

\* MetroNetwork.add_station on the stations dict (the lines grouping is
\* consulted by no search and is left out).
PutStation(S, idx, x, y) ==
    IF idx \notin DOMAIN S
        THEN [i \in DOMAIN S \cup {idx} |-> IF i = idx THEN Station(x, y) ELSE S[i]]
        ELSE S

\* A variant of Connect that forgets the mirror entry.
ConnectOneWay(S, a, b, time) == add_neighbor(S, a, b, time)

\* The body of add_connection's try block, both lookups having succeeded.
Connect(S, a, b, time) == add_neighbor(add_neighbor(S, a, b, time), b, a, time)

\* Number of successful add_connection calls so far.
RECURSIVE SumLen(_, _)
SumLen(S, ids) ==
    IF ids = {} THEN 0
    ELSE LET i == CHOOSE j \in ids : TRUE
         IN Len(S[i].neighbors) + SumLen(S, ids \ {i})

AdjacencyEntries(S) == SumLen(S, DOMAIN S)

Connections(S) == AdjacencyEntries(S) \div 2

\* A variant of StopsExist that forgets to test the target.
StopsExistStartOnly(S, start_id, target_id) == ~(start_id \notin DOMAIN S)

\* The precondition both searches test first.
StopsExist(S, start_id, target_id) ==
    ~(start_id \notin DOMAIN S \/ target_id \notin DOMAIN S)

(***************************************************************************)
(* Python's < on the tuples find_fastest_route puts on the heap:           *)
(* (new_time, heuristic, neighbor, path).  Tuples compare at the first     *)
(* position where the items are not equal; Station defines neither __eq__  *)
(* nor __lt__, so two Stations are equal only when identical, and < on two *)
(* different Stations raises TypeError.  A path is a list of Stations and  *)
(* compares the same way.  "T" / "F" are the outcomes, "E" the TypeError.  *)
(***************************************************************************)
Truth(b) == IF b THEN "T" ELSE "F"

PathLT(p, q) ==
    LET n == IF Len(p) < Len(q) THEN Len(p) ELSE Len(q)
    IN IF \E i \in 1..n : p[i] # q[i] THEN "E" ELSE Truth(Len(p) < Len(q))

EntryLT(a, b) ==
    IF a.t # b.t THEN Truth(a.t < b.t)
    ELSE IF a.h # b.h THEN Truth(a.h < b.h)
    ELSE IF a.s # b.s THEN "E"
    ELSE PathLT(a.path, b.path)

(***************************************************************************)
(* heapq on a Python list.  Positions are the 0-based positions of heapq's *)
(* code; the list is a 1-based sequence, so position p is heap[p + 1].     *)
(* Each operation yields the new list and whether a comparison raised.     *)
(***************************************************************************)
RECURSIVE siftdown(_, _, _, _)
siftdown(heap, startpos, pos, newitem) ==
    IF pos > startpos
        THEN LET parentpos == (pos - 1) \div 2
                 parent == heap[parentpos + 1]
                 lt == EntryLT(newitem, parent)
             IN IF lt = "E" THEN [heap |-> heap, err |-> TRUE]
                ELSE IF lt = "T"
                    THEN siftdown([heap EXCEPT ![pos + 1] = parent],
                                  startpos, parentpos, newitem)
                    ELSE [heap |-> [heap EXCEPT ![pos + 1] = newitem], err |-> FALSE]
        ELSE [heap |-> [heap EXCEPT ![pos + 1] = newitem], err |-> FALSE]

RECURSIVE siftup(_, _, _, _)
siftup(heap, startpos, pos, newitem) ==
    LET endpos == Len(heap)
        childpos == 2 * pos + 1
        rightpos == childpos + 1
    IN IF childpos < endpos
        THEN LET lt == IF rightpos < endpos
                           THEN EntryLT(heap[childpos + 1], heap[rightpos + 1])
                           ELSE "T"
                 child == IF lt = "F" THEN rightpos ELSE childpos
             IN IF lt = "E" THEN [heap |-> heap, err |-> TRUE]
                ELSE siftup([heap EXCEPT ![pos + 1] = heap[child + 1]],
                            startpos, child, newitem)
        ELSE siftdown([heap EXCEPT ![pos + 1] = newitem], startpos, pos, newitem)

\* A variant of heappush that appends without restoring the heap order.
heappushAppendOnly(heap, item) == [heap |-> Append(heap, item), err |-> FALSE]

heappush(heap, item) == siftdown(Append(heap, item), 0, Len(heap), item)

\* heappop of a non-empty list: the item returned, the list left, the error.
heappop(heap) ==
    LET lastelt == heap[Len(heap)]
        rest == SubSeq(heap, 1, Len(heap) - 1)
    IN IF rest # <<>>
        THEN LET r == siftup([rest EXCEPT ![1] = lastelt], 0, 0, lastelt)
             IN [item |-> rest[1], heap |-> r.heap, err |-> r.err]
        ELSE [item |-> lastelt, heap |-> rest, err |-> FALSE]

\* deque.popleft
popleft(q) == [item |-> Head(q), rest |-> Tail(q)]

\* dict assignment d[k] = v
Put(d, k, v) == [i \in DOMAIN d \cup {k} |-> IF i = k THEN v ELSE d[i]]

\* A variant of BFSExpand that extends one shared path list in place, as
\* path.append(neighbor) would, instead of building path + [neighbor].
RECURSIVE BFSExpandSharedPath(_, _, _, _)
BFSExpandSharedPath(S, item, i, f) ==
    IF i > Len(S[item.s].neighbors) THEN f
    ELSE LET neighbor == S[item.s].neighbors[i][1]
         IN IF neighbor \notin f.visited
              THEN BFSExpandSharedPath(S, item, i + 1,
                     [queue   |-> Append(f.queue,
                                    [s |-> neighbor,
                                     path |-> Append(item.path \o f.pushed, neighbor)]),
                      visited |-> f.visited \cup {neighbor},
                      pushed  |-> Append(f.pushed, neighbor)])
              ELSE BFSExpandSharedPath(S, item, i + 1, f)

(***************************************************************************)
(* find_least_transfers: one iteration of the while loop.                  *)
(***************************************************************************)
\* The for loop over current_station.neighbors, from entry i on.
\* f = [queue, visited, pushed]
RECURSIVE BFSExpand(_, _, _, _)
BFSExpand(S, item, i, f) ==
    IF i > Len(S[item.s].neighbors) THEN f
    ELSE LET neighbor == S[item.s].neighbors[i][1]
         IN IF neighbor \notin f.visited
              THEN BFSExpand(S, item, i + 1,
                     [queue   |-> Append(f.queue,
                                    [s |-> neighbor, path |-> Append(item.path, neighbor)]),
                      visited |-> f.visited \cup {neighbor},
                      pushed  |-> Append(f.pushed, neighbor)])
              ELSE BFSExpand(S, item, i + 1, f)

\* Pop, test for the target, expand.  result.tag = "pending": loop again.
BFSIter(S, target, q, vis) ==
    LET p == popleft(q)
        f == BFSExpand(S, p.item, 1, [queue |-> p.rest, visited |-> vis, pushed |-> <<>>])
    IN IF p.item.s = target
        THEN [result |-> ReturnPath(p.item.path, 0), queue |-> p.rest,
              visited |-> vis, item |-> p.item, pushed |-> <<>>]
        ELSE [result |-> NoResult, queue |-> f.queue,
              visited |-> f.visited, item |-> p.item, pushed |-> f.pushed]

(***************************************************************************)
(* find_fastest_route: one iteration of the while loop.                    *)
(***************************************************************************)
\* The for loop over current_station.neighbors, from entry i on.
\* f = [pq, st, err, pushed]; a TypeError from heappush ends the loop.
RECURSIVE Relax(_, _, _, _, _)
Relax(S, target, item, i, f) ==
    IF f.err \/ i > Len(S[item.s].neighbors) THEN f
    ELSE LET neighbor == S[item.s].neighbors[i][1]
             time == S[item.s].neighbors[i][2]
             new_time == item.t + time
             heuristic == distance_to(S, neighbor, target)
         IN IF neighbor \notin DOMAIN f.st \/ new_time < f.st[neighbor]
              THEN LET r == heappush(f.pq, [t |-> new_time, h |-> heuristic,
                                            s |-> neighbor,
                                            path |-> Append(item.path, neighbor)])
                   IN Relax(S, target, item, i + 1,
                        [pq |-> r.heap, st |-> Put(f.st, neighbor, new_time),
                         err |-> r.err, pushed |-> Append(f.pushed, neighbor)])
              ELSE Relax(S, target, item, i + 1, f)

\* Pop, test for the target, relax.  result.tag = "pending": loop again.
AStarIter(S, target, heap, st) ==
    LET p == heappop(heap)
        f == Relax(S, target, p.item, 1,
                   [pq |-> p.heap, st |-> st, err |-> FALSE, pushed |-> <<>>])
    IN IF p.err
        THEN [result |-> Raise("TypeError"), pq |-> heap, st |-> st,
              item |-> p.item, pushed |-> <<>>, popped |-> FALSE]
        ELSE IF p.item.s = target
        THEN [result |-> ReturnPath(p.item.path, p.item.t), pq |-> p.heap, st |-> st,
              item |-> p.item, pushed |-> <<>>, popped |-> TRUE]
        ELSE [result |-> IF f.err THEN Raise("TypeError") ELSE NoResult,
              pq |-> f.pq, st |-> f.st,
              item |-> p.item, pushed |-> f.pushed, popped |-> TRUE]

\* The initial heap and dict of find_fastest_route.
StartEntry(start) == [t |-> 0, h |-> 0, s |-> start, path |-> <<start>>]

StartTimes(start) == [i \in {start} |-> 0]

\* The whole call as a function of the network: what it returns or raises
\* ("unfinished" when the loop is still running after MaxPops iterations).
RECURSIVE RunFastest(_, _, _, _, _)
RunFastest(S, target, heap, st, fuel) ==
    IF heap = <<>> THEN ReturnNone
    ELSE IF fuel = 0 THEN Raise("unfinished")
    ELSE LET r == AStarIter(S, target, heap, st)
         IN IF r.result.tag # "pending" THEN r.result
            ELSE RunFastest(S, target, r.pq, r.st, fuel - 1)

find_fastest_route(S, start_id, target_id) ==
    IF ~StopsExist(S, start_id, target_id) THEN ReturnNone
    ELSE RunFastest(S, target_id, <<StartEntry(start_id)>>,
                    StartTimes(start_id), MaxPops)

(***************************************************************************)
(* Operations.  Each leaves mainpc to the specification that drives it.    *)
(***************************************************************************)
Init ==
    /\ stations = <<>>
    /\ stdout = NoMessage
    /\ pc = "idle"
    /\ call = [fn |-> "none", start |-> 0, target |-> 0]
    /\ queue = <<>>
    /\ visited = {}
    /\ pq = <<>>
    /\ shortest_time = <<>>
    /\ result = NoResult
    /\ added = <<>>
    /\ removed = <<>>
    /\ mainpc = 0

add_station(idx, x, y) ==
    /\ pc = "idle"
    /\ stations' = PutStation(stations, idx, x, y)
    /\ stdout' = NoMessage
    /\ UNCHANGED <<pc, call, queue, visited, pq, shortest_time, result, added, removed>>

add_connection(station1_id, station2_id, time) ==
    /\ pc = "idle"
    /\ IF station1_id \in DOMAIN stations /\ station2_id \in DOMAIN stations
         THEN /\ stations' = Connect(stations, station1_id, station2_id, time)
              /\ stdout' = NoMessage
         ELSE /\ stations' = stations
              /\ stdout' = MissingConnectionMessage
    /\ UNCHANGED <<pc, call, queue, visited, pq, shortest_time, result, added, removed>>

\* find_least_transfers up to the first test of the while condition.
CallLeastTransfers(start_id, target_id) ==
    /\ pc \in {"idle", "returned"}
    /\ call' = [fn |-> "find_least_transfers", start |-> start_id, target |-> target_id]
    /\ pq' = <<>>
    /\ shortest_time' = <<>>
    /\ removed' = <<>>
    /\ UNCHANGED stations
    /\ IF ~StopsExist(stations, start_id, target_id)
         THEN /\ stdout' = MissingStationMessage
              /\ result' = ReturnNone
              /\ pc' = "returned"
              /\ queue' = <<>> /\ visited' = {} /\ added' = <<>>
         ELSE IF start_id \notin DOMAIN stations \/ target_id \notin DOMAIN stations
         THEN /\ stdout' = NoMessage
              /\ result' = Raise("KeyError")
              /\ pc' = "returned"
              /\ queue' = <<>> /\ visited' = {} /\ added' = <<>>
         ELSE /\ stdout' = NoMessage
              /\ result' = NoResult
              /\ pc' = "bfs"
              /\ queue' = <<[s |-> start_id, path |-> <<start_id>>]>>
              /\ visited' = {}
              /\ added' = <<start_id>>

\* One test of the while condition and, the queue not being empty, one
\* iteration of the loop.
LeastTransfersStep ==
    /\ pc = "bfs"
    /\ UNCHANGED <<stations, stdout, call, pq, shortest_time>>
    /\ IF queue = <<>>
         THEN /\ result' = ReturnNone
              /\ pc' = "returned"
              /\ UNCHANGED <<queue, visited, added, removed>>
         ELSE LET r == BFSIter(stations, call.target, queue, visited)
              IN /\ queue' = r.queue
                 /\ visited' = r.visited
                 /\ result' = r.result
                 /\ pc' = IF r.result.tag = "pending" THEN "bfs" ELSE "returned"
                 /\ added' = added \o r.pushed
                 /\ removed' = Append(removed, [s |-> r.item.s,
                                                t |-> Len(r.item.path) - 1,
                                                nadd |-> Len(r.pushed)])

\* find_fastest_route up to the first test of the while condition.
CallFastestRoute(start_id, target_id) ==
    /\ pc \in {"idle", "returned"}
    /\ call' = [fn |-> "find_fastest_route", start |-> start_id, target |-> target_id]
    /\ queue' = <<>>
    /\ visited' = {}
    /\ removed' = <<>>
    /\ UNCHANGED stations
    /\ IF ~StopsExist(stations, start_id, target_id)
         THEN /\ stdout' = MissingStationMessage
              /\ result' = ReturnNone
              /\ pc' = "returned"
              /\ pq' = <<>> /\ shortest_time' = <<>> /\ added' = <<>>
         ELSE IF start_id \notin DOMAIN stations \/ target_id \notin DOMAIN stations
         THEN /\ stdout' = NoMessage
              /\ result' = Raise("KeyError")
              /\ pc' = "returned"
              /\ pq' = <<>> /\ shortest_time' = <<>> /\ added' = <<>>
         ELSE /\ stdout' = NoMessage
              /\ result' = NoResult
              /\ pc' = "astar"
              /\ pq' = <<StartEntry(start_id)>>
              /\ shortest_time' = StartTimes(start_id)
              /\ added' = <<start_id>>

\* One test of the while condition and, the heap not being empty, one
\* iteration of the loop.
FastestRouteStep ==
    /\ pc = "astar"
    /\ UNCHANGED <<stations, stdout, call, queue, visited>>
    /\ IF pq = <<>>
         THEN /\ result' = ReturnNone
              /\ pc' = "returned"
              /\ UNCHANGED <<pq, shortest_time, added, removed>>
         ELSE LET r == AStarIter(stations, call.target, pq, shortest_time)
              IN /\ pq' = r.pq
                 /\ shortest_time' = r.st
                 /\ result' = r.result
                 /\ pc' = IF r.result.tag = "pending" THEN "astar" ELSE "returned"
                 /\ added' = added \o r.pushed
                 /\ removed' = IF r.popped
                                 THEN Append(removed, [s |-> r.item.s, t |-> r.item.t,
                                                       nadd |-> Len(r.pushed)])
                                 ELSE removed

(***************************************************************************)
(* An arbitrary caller: builds a network of at most MaxEdges connections   *)
(* over Ids with travel times from W, then makes one query.                *)
(* add_connection(a, b, t) and add_connection(b, a, t) append the same two *)
(* entries, so the caller's connections are drawn with a <= b.             *)
(***************************************************************************)
Caller(W) ==
    \/ \E idx \in Ids, p \in Points :
          add_station(idx, p[1], p[2]) /\ UNCHANGED mainpc
    \/ \E a \in Ids, b \in Ids, time \in W :
          /\ a <= b
          /\ Connections(stations) < MaxEdges
          /\ add_connection(a, b, time)
          /\ UNCHANGED mainpc
    \/ \E a \in Ids, b \in Ids :
          pc = "idle" /\ CallLeastTransfers(a, b) /\ UNCHANGED mainpc
    \/ LeastTransfersStep /\ UNCHANGED mainpc
    \/ \E a \in Ids, b \in Ids :
          pc = "idle" /\ CallFastestRoute(a, b) /\ UNCHANGED mainpc
    \/ Len(removed) < MaxPops /\ FastestRouteStep /\ UNCHANGED mainpc

Next == Caller(Weights)

Spec == Init /\ [][Next]_vars

NextSigned == Caller(SignedWeights)

SpecSigned == Init /\ [][NextSigned]_vars

(***************************************************************************)
(* The __main__ script: ten stations A1..A10 (idx i stands for "A<i>"),    *)
(* nine connections, twelve test pairs, each queried with both searches.   *)
(* Formatting and printing of the results are left out.                    *)
(***************************************************************************)
MainStations ==
    << <<1, 1, 1>>, <<2, 1, 2>>, <<3, 2, 3>>, <<4, 3, 4>>, <<5, 4, 5>>,
       <<6, 5, 5>>, <<7, 6, 6>>, <<8, 7, 7>>, <<9, 8, 8>>, <<10, 9, 9>> >>

MainConnections ==
    << <<1, 2, 5>>, <<1, 3, 3>>, <<3, 4, 7>>,
       <<5, 6, 4>>, <<7, 8, 6>>, <<8, 9, 8>>,
       <<1, 10, 2>>, <<2, 6, 9>>, <<4, 9, 10>> >>

MainTests ==
    << <<1, 7>>, <<1, 10>>, <<2, 6>>,
       <<3, 9>>, <<5, 7>>, <<8, 10>>,
       <<1, 1>>, <<1, 4>>, <<3, 2>>,
       <<5, 8>>, <<6, 9>>, <<10, 1>> >>

\* mainpc counts the calls the script has made.
MainBuilt == Len(MainStations) + Len(MainConnections)

MainTest == MainTests[(mainpc - MainBuilt) \div 2 + 1]

MainAddStation ==
    /\ mainpc < Len(MainStations)
    /\ LET st == MainStations[mainpc + 1] IN add_station(st[1], st[2], st[3])
    /\ mainpc' = mainpc + 1

MainAddConnection ==
    /\ mainpc >= Len(MainStations)
    /\ mainpc < MainBuilt
    /\ LET c == MainConnections[mainpc - Len(MainStations) + 1]
       IN add_connection(c[1], c[2], c[3])
    /\ mainpc' = mainpc + 1

MainLeastTransfers ==
    /\ mainpc >= MainBuilt
    /\ mainpc < MainBuilt + 2 * Len(MainTests)
    /\ (mainpc - MainBuilt) % 2 = 0
    /\ CallLeastTransfers(MainTest[1], MainTest[2])
    /\ mainpc' = mainpc + 1

MainFastestRoute ==
    /\ mainpc >= MainBuilt
    /\ mainpc < MainBuilt + 2 * Len(MainTests)
    /\ (mainpc - MainBuilt) % 2 = 1
    /\ CallFastestRoute(MainTest[1], MainTest[2])
    /\ mainpc' = mainpc + 1

NextMain ==
    \/ MainAddStation
    \/ MainAddConnection
    \/ MainLeastTransfers
    \/ LeastTransfersStep /\ UNCHANGED mainpc
    \/ MainFastestRoute
    \/ FastestRouteStep /\ UNCHANGED mainpc

SpecMain == Init /\ [][NextMain]_vars

(***************************************************************************)
(* Reference notions the properties are stated against.  None of them is   *)
(* used by the model of the program.                                       *)
(***************************************************************************)
Entries(S, a) == {S[a].neighbors[i] : i \in 1..Len(S[a].neighbors)}

Adjacent(S, a) == {e[1] : e \in Entries(S, a)}

BothPresent == call.start \in DOMAIN stations /\ call.target \in DOMAIN stations

NonNegativeWeights(S) == \A a \in DOMAIN S : \A e \in Entries(S, a) : e[2] >= 0

PositiveWeights(S) == \A a \in DOMAIN S : \A e \in Entries(S, a) : e[2] > 0

\* Reference breadth-first search by level sets: the hop distance from the
\* stops of frontier (at distance d) to b, or -1 when b is out of reach.
RECURSIVE Levels(_, _, _, _, _)
Levels(S, frontier, seen, d, b) ==
    IF b \in frontier THEN d
    ELSE LET next == UNION {Adjacent(S, a) : a \in frontier} \ seen
         IN IF next = {} THEN -1
            ELSE Levels(S, next, seen \cup next, d + 1, b)

HopDistance(S, a, b) == Levels(S, {a}, {a}, 0, b)

Reachable(S, a, b) == HopDistance(S, a, b) >= 0

\* The weights of all simple paths from a to b that avoid the stops of seen.
RECURSIVE PathWeights(_, _, _, _)
PathWeights(S, a, b, seen) ==
    IF a = b THEN {0}
    ELSE UNION { {e[2] + w : w \in PathWeights(S, e[1], b, seen \cup {e[1]})} :
                 e \in {d \in Entries(S, a) : d[1] \notin seen} }

MinimumOf(ws) == CHOOSE w \in ws : \A v \in ws : w <= v

MinimumWeight(S, a, b) == MinimumOf(PathWeights(S, a, b, {a}))

\* The totals a sequence of stops can have, one network entry taken per hop.
RECURSIVE WalkWeights(_, _, _)
WalkWeights(S, path, i) ==
    IF i >= Len(path) THEN {0}
    ELSE { e[2] + w : e \in {d \in Entries(S, path[i]) : d[1] = path[i + 1]},
                      w \in WalkWeights(S, path, i + 1) }

\* path is a non-empty walk of the network from a to b.
IsWalk(S, path, a, b) ==
    /\ Len(path) >= 1
    /\ path[1] = a
    /\ path[Len(path)] = b
    /\ \A i \in 1..(Len(path) - 1) : path[i + 1] \in Adjacent(S, path[i])

Occurrences(seq, s) == Cardinality({i \in 1..Len(seq) : seq[i] = s})

\* The network with its stops moved to the points P assigns them.
Reposition(S, P) == [i \in DOMAIN S |-> [S[i] EXCEPT !.x = P[i][1], !.y = P[i][2]]]

Returned(fn) == pc = "returned" /\ call.fn = fn

(***************************************************************************)
(* C1: for positive weights and a reachable target, find_fastest_route     *)
(* returns a total equal to the minimum weight of a simple path.           *)
(***************************************************************************)
C1_FastestIsMinimum ==
    ( /\ Returned("find_fastest_route")
      /\ BothPresent
      /\ PositiveWeights(stations)
      /\ Reachable(stations, call.start, call.target) )
    => /\ result.tag = "path"
       /\ result.total = MinimumWeight(stations, call.start, call.target)

C3_NoFatalCondition ==
    (pc = "returned" /\ PositiveWeights(stations)) => result.tag \in {"path", "None"}

C5_ImprovementsBounded ==
    call.fn = "find_fastest_route" =>
        \A s \in DOMAIN stations :
            Occurrences(SubSeq(added, 2, Len(added)), s) <= Connections(stations)

(***************************************************************************)
(* C6: with the positive weights of the data model, find_fastest_route     *)
(* (a, b) and (b, a) return the same total, and one reports no path        *)
(* exactly when the other does.                                            *)
(***************************************************************************)
C6_Symmetric ==
    ( /\ Returned("find_fastest_route")
      /\ BothPresent
      /\ PositiveWeights(stations) )
    => LET back == find_fastest_route(stations, call.target, call.start)
       IN /\ (result.tag = "None") = (back.tag = "None")
          /\ (result.tag = "path") = (back.tag = "path")
          /\ result.total = back.total

(***************************************************************************)
(* C7 as claimed: on the network of the __main__ script the query          *)
(* (A1, A7) reports no path, for both searches.                            *)
(***************************************************************************)
C7_NoPathA1A7 ==
    ( /\ pc = "returned"
      /\ mainpc > MainBuilt
      /\ call.start = 1
      /\ call.target = 7 )
    => result.tag = "None"

(***************************************************************************)
(* C7 as amended: on that network the query (A1, A7) finds the path        *)
(* A1, A3, A4, A9, A8, A7 with both searches: five edges for               *)
(* find_least_transfers, total time 3 + 7 + 10 + 8 + 6 = 34 for            *)
(* find_fastest_route.                                                     *)
(***************************************************************************)
C7_PathA1A7 ==
    ( /\ pc = "returned"
      /\ mainpc > MainBuilt
      /\ call.start = 1
      /\ call.target = 7 )
    => /\ result.tag = "path"
       /\ result.path = <<1, 3, 4, 9, 8, 7>>
       /\ call.fn = "find_fastest_route" => result.total = 34

C7_Witness ==
    /\ Returned("find_fastest_route")
    /\ mainpc > MainBuilt
    /\ call.start = 1
    /\ call.target = 7
    /\ result.tag = "path"
    /\ Len(result.path) = 6

(***************************************************************************)
(* C8: within one find_least_transfers search no stop, the start stop      *)
(* included, is enqueued more than once or dequeued more than once.        *)
(***************************************************************************)
C8_EnqueuedOnce ==
    call.fn = "find_least_transfers" =>
        \A s \in DOMAIN stations :
            /\ Occurrences(added, s) <= 1
            /\ Cardinality({i \in 1..Len(removed) : removed[i].s = s}) <= 1

(***************************************************************************)
(* C9: in find_fastest_route with non-negative weights the first entry     *)
(* popped for a stop carries the minimum path weight from start to that    *)
(* stop, and a later pop of an entry for the same stop records no new      *)
(* best weight and pushes no entry.                                        *)
(***************************************************************************)
C9_FirstPopFinal ==
    (call.fn = "find_fastest_route" /\ NonNegativeWeights(stations)) =>
        \A i \in 1..Len(removed) :
            IF \A j \in 1..(i - 1) : removed[j].s # removed[i].s
                THEN removed[i].t = MinimumWeight(stations, call.start, removed[i].s)
                ELSE removed[i].nadd = 0

C9_Witness ==
    /\ call.fn = "find_fastest_route"
    /\ NonNegativeWeights(stations)
    /\ \E i \in 1..Len(removed) : \E j \in 1..(i - 1) :
          /\ removed[j].s = removed[i].s
          /\ removed[j].t < removed[i].t

(***************************************************************************)
(* C10: with the positive weights of the data model, a (path, total)       *)
(* returned by find_fastest_route is a non-empty walk from start to target *)
(* whose edge weights sum to total, and the same query on the same network *)
(* with its stops at other positions returns the same total.               *)
(***************************************************************************)
C10_WalkTotalAndPositions ==
    ( /\ Returned("find_fastest_route")
      /\ PositiveWeights(stations)
      /\ result.tag = "path" )
    => /\ IsWalk(stations, result.path, call.start, call.target)
       /\ result.total \in WalkWeights(stations, result.path, 1)
       /\ \A P \in [DOMAIN stations -> Points] :
             LET moved == find_fastest_route(Reposition(stations, P),
                                             call.start, call.target)
             IN moved.tag = "path" /\ moved.total = result.total

====
